---- MODULE Spec2Model ----
(***************************************************************************)
(* A model of server.js: the Express server that checks credential lines   *)
(* against the remote endpoint.  One behaviour of the model is the         *)
(* handling of one HTTP request by one of the routes /api/test-single,     *)
(* /api/start-check, /api/batch-check and /api/save-results, together with *)
(* the events Node's http client delivers for the outbound requests the    *)
(* handler issues.                                                         *)
(*                                                                         *)
(* JavaScript values are tagged records (Num, Str, Undefined, Null, Obj),  *)
(* text that the code takes apart (credential lines, e-mail addresses) is  *)
(* a sequence of one-character strings, and opaque text (tokens, server    *)
(* messages) is a TLA+ string.                                             *)
(***************************************************************************)
EXTENDS Integers, Sequences, FiniteSets, TLC

VARIABLES
    route,      \* the route that received the request
    body,       \* req.body of the request
    pc,         \* position of the async handler
    i,          \* batch-check: index of the record of the current iteration
    parsed,     \* batch-check: const parsed of the current iteration
    results,    \* batch-check: const results
    reqs,       \* the outbound requests issued so far, oldest first
    delays,     \* batch-check: number of pacing timers that have fired
    reply,      \* what res.status(..).json(..) sent to the caller
    file        \* save-results: the header counts written to the results file

vars == <<route, body, pc, i, parsed, results, reqs, delays, reply, file>>

-----------------------------------------------------------------------------
(* Bounds of the model *)

MaxLineLen == 4     \* longest credential line of a one-record batch
MaxBatch == 2       \* longest batch of the multi-record batches
MaxChunks == 1      \* most 'data' events of one response body
MaxResults == 3     \* longest result list posted to /api/save-results

-----------------------------------------------------------------------------
(* JavaScript values *)

Undefined == [type |-> "undefined"]
Null == [type |-> "null"]
Num(n) == [type |-> "number", val |-> n]
Str(s) == [type |-> "string", val |-> s]
Obj(f) == [type |-> "object", fields |-> f]

\* v.k for a value produced by JSON.parse (never undefined or null here)
Get(v, k) ==
    IF v.type = "object" /\ k \in DOMAIN v.fields THEN v.fields[k] ELSE Undefined

Truthy(v) ==
    CASE v.type = "undefined" -> FALSE
      [] v.type = "null" -> FALSE
      [] v.type = "number" -> v.val # 0
      [] v.type = "string" -> v.val # ""
      [] OTHER -> TRUE

\* a || b and a && b
JsOr(a, b) == IF Truthy(a) THEN a ELSE b
JsAnd(a, b) == IF Truthy(a) THEN b ELSE a

\* a message with the values interpolated into it
Msg(text) == [text |-> text, args |-> <<>>]
MsgOf(text, args) == [text |-> text, args |-> args]

-----------------------------------------------------------------------------
(* Text *)

IsSpace(c) == c = " "

RECURSIVE TrimStart(_)
TrimStart(s) ==
    IF s # <<>> /\ IsSpace(Head(s)) THEN TrimStart(Tail(s)) ELSE s

RECURSIVE TrimEnd(_)
TrimEnd(s) ==
    IF s # <<>> /\ IsSpace(s[Len(s)]) THEN TrimEnd(SubSeq(s, 1, Len(s) - 1)) ELSE s

\* String.prototype.trim
Trim(s) == TrimEnd(TrimStart(s))

\* line.split(':'): the pieces between the separators, at least one piece
RECURSIVE SplitFrom(_, _, _)
SplitFrom(s, cur, acc) ==
    IF s = <<>> THEN Append(acc, cur)
    ELSE IF Head(s) = ":" THEN SplitFrom(Tail(s), <<>>, Append(acc, cur))
    ELSE SplitFrom(Tail(s), Append(cur, Head(s)), acc)

Split(s) == SplitFrom(s, <<>>, <<>>)

\* parts.join(':')
RECURSIVE Join(_)
Join(parts) ==
    IF parts = <<>> THEN <<>>
    ELSE IF Len(parts) = 1 THEN parts[1]
    ELSE parts[1] \o <<":">> \o Join(Tail(parts))

\* parts.slice(1).join(':'): the same, from the second piece on
JoinRest(parts) == Join(Tail(parts))

\* parseComboLine that keeps only the second piece as the password
parseComboLineSecondPiece(line) ==
    LET parts == Split(line) IN
    IF Len(parts) >= 2
    THEN [email |-> Trim(parts[1]), password |-> Trim(parts[2])]
    ELSE Null

parseComboLine(line) ==
    LET parts == Split(line) IN
    IF Len(parts) >= 2
    THEN [email |-> Trim(parts[1]), password |-> Trim(JoinRest(parts))]
    ELSE Null

\* crypto.createHash('md5').update(s).digest('hex'), taken to be collision free
MD5Hex(signStr) == [md5 |-> signStr]

\* makeSign(email, e_captcha) with channel, country and op left to their defaults
makeSign(email, e_captcha) ==
    LET channel == ""
        country == ""
        op == "email_code_login"
    IN MD5Hex(<<"channel=", channel, "&country=", country, "&e_captcha=", e_captcha,
                "&email=", email, "&op=", op>>)

-----------------------------------------------------------------------------
(* The remote endpoint and Node's http client *)

Codes == {0, 1004, 7}
ServerMessages ==
    {"Error_Success", "Error_NoAccount", "Error_FailedTooMuch",
     "Error_ECaptcha_VerifyFail", "Error_Other"}

Pair(c, m) == Obj([code |-> Num(c), message |-> Str(m)])

\* what JSON.parse can return for a response body
JsonValues ==
    {Pair(c, m) : c \in Codes, m \in ServerMessages}
    \cup {Obj([code |-> Num(0), message |-> Str("Error_Success"),
               redirect |-> Str("https://r")]),
          Obj([code |-> Num(0), message |-> Str("Error_Success"),
               data |-> Obj([redirect |-> Str("https://d")])]),
          Obj([code |-> Num(1004)]),
          Num(5),
          Null}

\* a body JSON.parse throws on
Garbage == [type |-> "garbage"]

\* the bodies the remote may send: the text, and the number of chunks it
\* arrives in (the empty text is no JSON)
Wires ==
    {[json |-> v, pieces |-> n] : v \in JsonValues \cup {Garbage}, n \in 1..MaxChunks}
    \cup {[json |-> Garbage, pieces |-> 0]}

NoWire == [json |-> Garbage, pieces |-> 0]

\* err.message of the 'error' events of a request whose socket failed
NetErrors == {"read ECONNRESET"}
HangUp == "socket hang up"

Pending == [state |-> "pending"]
Fulfilled(v) == [state |-> "fulfilled", value |-> v]
Rejected(m) == [state |-> "rejected", reason |-> m]

\* resolve(v) and reject(e) of the promise's executor: the first call settles it
resolve(p, v) == IF p.state = "pending" THEN Fulfilled(v) ELSE p
reject(p, m) == IF p.state = "pending" THEN Rejected(m) ELSE p

\* new Promise(...) around client.request(options, cb); req.write; req.end
NewRequest(payload) ==
    [st |-> "sent", promise |-> Pending, data |-> 0, wire |-> NoWire,
     payload |-> payload]

\* the requests whose call is still on the wire
InFlight == {k \in 1..Len(reqs) : reqs[k].st \in {"sent", "headers"}}

Handler == UNCHANGED <<route, body, pc, i, parsed, results, delays, reply, file>>

\* the response callback: headers arrived, 'data' and 'end' listeners attached
OnResponse(k) ==
    /\ reqs[k].st = "sent"
    /\ \E w \in Wires :
         reqs' = [reqs EXCEPT ![k].st = "headers", ![k].wire = w, ![k].data = 0]
    /\ Handler

\* res.on('data'): data += chunk
OnData(k) ==
    /\ reqs[k].st = "headers"
    /\ reqs[k].data < reqs[k].wire.pieces
    /\ reqs' = [reqs EXCEPT ![k].data = @ + 1]
    /\ Handler

\* res.on('end'): resolve(JSON.parse(data)), or reject when it throws
OnEnd(k) ==
    /\ reqs[k].st = "headers"
    /\ reqs[k].data = reqs[k].wire.pieces
    /\ LET r == reqs[k]
           p == IF r.wire.json = Garbage
                THEN reject(r.promise, Msg("Invalid JSON response"))
                ELSE resolve(r.promise, r.wire.json)
       IN reqs' = [reqs EXCEPT ![k] =
                     [r EXCEPT !.st = "ended", !.promise = p,
                               !.wire = NoWire, !.data = 0]]
    /\ Handler

\* req.on('error'): the socket failed, before a response or while the body
\* was arriving
OnError(k) ==
    /\ reqs[k].st \in {"sent", "headers"}
    /\ \E m \in NetErrors :
         reqs' = [reqs EXCEPT ![k].st = "failed",
                              ![k].promise = reject(@, Msg(m)),
                              ![k].wire = NoWire, ![k].data = 0]
    /\ Handler

\* req.on('timeout'): req.destroy(); reject(new Error('Request timeout'))
OnTimeout(k) ==
    /\ reqs[k].st \in {"sent", "headers"}
    /\ LET r == reqs[k] IN
       reqs' = [reqs EXCEPT ![k] =
                  [r EXCEPT !.st = IF r.st = "sent" THEN "destroyed" ELSE "aborted",
                            !.promise = reject(r.promise, Msg("Request timeout")),
                            !.wire = NoWire, !.data = 0]]
    /\ Handler

\* req.on('error') once more: destroying a request that has no response yet
\* makes Node emit 'socket hang up' on it
OnErrorAfterDestroy(k) ==
    /\ reqs[k].st = "destroyed"
    /\ reqs' = [reqs EXCEPT ![k].st = "failed",
                            ![k].promise = reject(@, Msg(HangUp))]
    /\ Handler

\* the remote closes the connection while the body is arriving: Node emits
\* 'aborted' and 'close' on res, never 'end', and no 'error' on req; the
\* response callback attached no listener for these
OnCloseMidBody(k) ==
    /\ reqs[k].st = "headers"
    /\ reqs' = [reqs EXCEPT ![k].st = "closed", ![k].wire = NoWire, ![k].data = 0]
    /\ Handler

-----------------------------------------------------------------------------
(* The request the handlers sign and send, and the classification of the    *)
(* response; /api/test-single and /api/batch-check each have their own copy *)

SinglePayload(email, token) ==
    LET op == "email_code_login"
        sign == makeSign(email, token)
    IN [op |-> op, sign |-> sign,
        params |-> [email |-> email, channel |-> "", e_captcha |-> token, country |-> ""],
        lang |-> "en"]

BatchPayload(email, token) ==
    LET op == "email_code_login"
        sign == makeSign(email, token)
    IN [op |-> op, sign |-> sign,
        params |-> [email |-> email, channel |-> "", e_captcha |-> token, country |-> ""],
        lang |-> "en"]

\* const { code, message } = response throws a TypeError on null
DestructureThrows(response) == response.type \in {"null", "undefined"}
TypeErrorMessage == Msg("Cannot destructure property 'code' of 'response' as it is null.")

\* response.redirect || (response.data && response.data.redirect)
RedirectUrl(response) ==
    JsOr(Get(response, "redirect"),
         JsAnd(Get(response, "data"), Get(Get(response, "data"), "redirect")))

\* SingleClassify without the branch for Error_FailedTooMuch
SingleClassifyNoBan(response) ==
    LET code == Get(response, "code")
        message == Get(response, "message")
    IN IF code = Num(1004) /\ message = Str("Error_NoAccount")
       THEN [status |-> "invalid", message |-> Msg("No account found")]
       ELSE IF code = Num(0) /\ message = Str("Error_Success")
       THEN [status |-> "valid",
             message |-> MsgOf("Success! Redirect: ", <<RedirectUrl(response)>>)]
       ELSE IF code = Num(1004) /\ message = Str("Error_ECaptcha_VerifyFail")
       THEN [status |-> "error", message |-> Msg("Captcha verification failed")]
       ELSE [status |-> "unknown",
             message |-> MsgOf("Unknown response: ", <<response>>)]

\* the if/else chain of /api/test-single
SingleClassify(response) ==
    LET code == Get(response, "code")
        message == Get(response, "message")
    IN IF code = Num(1004) /\ message = Str("Error_NoAccount")
       THEN [status |-> "invalid", message |-> Msg("No account found")]
       ELSE IF code = Num(0) /\ message = Str("Error_Success")
       THEN [status |-> "valid",
             message |-> MsgOf("Success! Redirect: ", <<RedirectUrl(response)>>)]
       ELSE IF code = Num(1004) /\ message = Str("Error_FailedTooMuch")
       THEN [status |-> "error",
             message |-> Msg("Too many failed attempts. IP/Proxy banned")]
       ELSE IF code = Num(1004) /\ message = Str("Error_ECaptcha_VerifyFail")
       THEN [status |-> "error", message |-> Msg("Captcha verification failed")]
       ELSE [status |-> "unknown",
             message |-> MsgOf("Unknown response: ", <<response>>)]

\* BatchClassify whose first test looks at the code alone
BatchClassifyCodeOnly(response) ==
    LET code == Get(response, "code")
        message == Get(response, "message")
    IN IF code = Num(1004)
       THEN [status |-> "invalid", message |-> Msg("No account found")]
       ELSE IF code = Num(0) /\ message = Str("Error_Success")
       THEN [status |-> "valid",
             message |-> MsgOf("Success! Redirect: ", <<RedirectUrl(response)>>)]
       ELSE [status |-> "unknown",
             message |-> MsgOf("Code: , Message: ", <<code, message>>)]

\* the if/else chain of /api/batch-check
BatchClassify(response) ==
    LET code == Get(response, "code")
        message == Get(response, "message")
    IN IF code = Num(1004) /\ message = Str("Error_NoAccount")
       THEN [status |-> "invalid", message |-> Msg("No account found")]
       ELSE IF code = Num(0) /\ message = Str("Error_Success")
       THEN [status |-> "valid",
             message |-> MsgOf("Success! Redirect: ", <<RedirectUrl(response)>>)]
       ELSE IF code = Num(1004) /\ message = Str("Error_FailedTooMuch")
       THEN [status |-> "error",
             message |-> Msg("Too many failed attempts. IP/Proxy banned")]
       ELSE IF code = Num(1004) /\ message = Str("Error_ECaptcha_VerifyFail")
       THEN [status |-> "error", message |-> Msg("Captcha verification failed")]
       ELSE [status |-> "unknown",
             message |-> MsgOf("Code: , Message: ", <<code, message>>)]

\* what /api/test-single answers once its promise has settled to p
SingleReply(email, p) ==
    IF p.state = "fulfilled" /\ ~DestructureThrows(p.value)
    THEN LET c == SingleClassify(p.value) IN
         [http |-> 200,
          json |-> [status |-> c.status, message |-> c.message, email |-> email,
                    code |-> Get(p.value, "code"),
                    serverMessage |-> Get(p.value, "message")]]
    ELSE [http |-> 500,
          json |-> [status |-> "error",
                    message |-> IF p.state = "rejected" THEN p.reason
                                ELSE TypeErrorMessage,
                    email |-> email]]

\* what /api/batch-check pushes once the promise of a record has settled to p
BatchOutcome(email, p) ==
    IF p.state = "fulfilled" /\ ~DestructureThrows(p.value)
    THEN LET c == BatchClassify(p.value) IN
         [status |-> c.status, message |-> c.message, email |-> email,
          code |-> Get(p.value, "code"),
          serverMessage |-> Get(p.value, "message")]
    ELSE [status |-> "error",
          message |-> IF p.state = "rejected" THEN p.reason ELSE TypeErrorMessage,
          email |-> email]

\* results.push({ status: 'error', message: 'Invalid combo format', email: combo })
MalformedOutcome(combo) ==
    [status |-> "error", message |-> Msg("Invalid combo format"), email |-> combo]

\* tokens[0] || ''
FirstToken(tokens) == IF tokens # <<>> /\ tokens[1] # "" THEN tokens[1] ELSE ""

-----------------------------------------------------------------------------
(* The requests the server may receive *)

Alphabet == {"a", ":", " "}
Lines == UNION {[1..n -> Alphabet] : n \in 0..MaxLineLen}

GoodA == <<"a", ":", "p">>
GoodB == <<"b", ":", "p", ":", "q">>
BadLine == <<"b", "a", "d">>
SmallLines == {GoodA, GoodB, BadLine}
SmallBatches == UNION {[1..n -> SmallLines] : n \in 0..MaxBatch}

TokenLists == {<<>>, <<"t1", "t2">>}

Statuses == {"valid", "invalid", "error", "unknown"}
SavedOutcomes == {[status |-> s, email |-> <<"a">>] : s \in Statuses}

Requests ==
    {[route |-> "test-single", body |-> [email |-> e, token |-> t]] :
        e \in {<<>>, <<"a">>}, t \in {"", "t1"}}
    \cup {[route |-> "start-check", body |-> [combos |-> b, tokens |-> t]] :
        b \in SmallBatches, t \in TokenLists}
    \cup {[route |-> "batch-check", body |-> [batch |-> b, tokens |-> t]] :
        b \in SmallBatches, t \in TokenLists}
    \cup {[route |-> "batch-check", body |-> [batch |-> <<l>>, tokens |-> <<"t1">>]] :
        l \in Lines}
    \cup {[route |-> "save-results", body |-> [results |-> rs]] :
        rs \in UNION {[1..n -> SavedOutcomes] : n \in 0..MaxResults}}

NoReply == [http |-> 0]
NoFile == [written |-> FALSE]

Init ==
    /\ \E r \in Requests : route = r.route /\ body = r.body
    /\ pc = "start"
    /\ i = 1
    /\ parsed = Null
    /\ results = <<>>
    /\ reqs = <<>>
    /\ delays = 0
    /\ reply = NoReply
    /\ file = NoFile

-----------------------------------------------------------------------------
(* /api/test-single *)

\* up to the await: the 400 answer, or the request is sent
SingleStart ==
    /\ route = "test-single" /\ pc = "start"
    /\ IF body.email = <<>> \/ body.token = ""
       THEN /\ reply' = [http |-> 400,
                         json |-> [error |-> "Email and token are required"]]
            /\ pc' = "done"
            /\ UNCHANGED reqs
       ELSE /\ reqs' = Append(reqs, NewRequest(SinglePayload(body.email, body.token)))
            /\ pc' = "await"
            /\ UNCHANGED reply
    /\ UNCHANGED <<route, body, i, parsed, results, delays, file>>

\* after the await: classification and res.json, or the catch block
SingleSettled ==
    /\ route = "test-single" /\ pc = "await"
    /\ reqs[Len(reqs)].promise.state # "pending"
    /\ reply' = SingleReply(body.email, reqs[Len(reqs)].promise)
    /\ pc' = "done"
    /\ UNCHANGED <<route, body, i, parsed, results, reqs, delays, file>>

-----------------------------------------------------------------------------
(* /api/start-check *)

StartCheck ==
    /\ route = "start-check" /\ pc = "start"
    /\ IF body.combos = <<>> \/ body.tokens = <<>>
       THEN reply' = [http |-> 400,
                      json |-> [error |-> "Combos and tokens are required"]]
       ELSE reply' = [http |-> 200,
                      json |-> [success |-> TRUE, message |-> "Checking started",
                                totalAccounts |-> Len(body.combos)]]
    /\ pc' = "done"
    /\ UNCHANGED <<route, body, i, parsed, results, reqs, delays, file>>

-----------------------------------------------------------------------------
(* /api/batch-check *)

\* const results = []; the loop is entered
BatchStart ==
    /\ route = "batch-check" /\ pc = "start"
    /\ results' = <<>>
    /\ i' = 1
    /\ pc' = "loop"
    /\ UNCHANGED <<route, body, parsed, reqs, delays, reply, file>>

\* BatchMalformed with the push left out: the line is dropped silently
BatchMalformedDropped ==
    /\ route = "batch-check" /\ pc = "loop"
    /\ i <= Len(body.batch)
    /\ parseComboLine(body.batch[i]) = Null
    /\ parsed' = Null
    /\ i' = i + 1
    /\ UNCHANGED <<route, body, pc, results, reqs, delays, reply, file>>

\* an iteration whose line does not parse: push and continue
BatchMalformed ==
    /\ route = "batch-check" /\ pc = "loop"
    /\ i <= Len(body.batch)
    /\ parseComboLine(body.batch[i]) = Null
    /\ parsed' = Null
    /\ results' = Append(results, MalformedOutcome(body.batch[i]))
    /\ i' = i + 1
    /\ UNCHANGED <<route, body, pc, reqs, delays, reply, file>>

\* an iteration whose line parses, up to the await: the request is sent
BatchSend ==
    /\ route = "batch-check" /\ pc = "loop"
    /\ i <= Len(body.batch)
    /\ parseComboLine(body.batch[i]) # Null
    /\ parsed' = parseComboLine(body.batch[i])
    /\ LET token == FirstToken(body.tokens) IN
       reqs' = Append(reqs, NewRequest(BatchPayload(parsed'.email, token)))
    /\ pc' = "await"
    /\ UNCHANGED <<route, body, i, results, delays, reply, file>>

\* BatchSettled without the inner try: a rejection reaches the outer catch
BatchSettledUncaught ==
    /\ route = "batch-check" /\ pc = "await"
    /\ reqs[Len(reqs)].promise.state # "pending"
    /\ LET p == reqs[Len(reqs)].promise IN
       IF p.state = "fulfilled"
       THEN /\ results' = Append(results, BatchOutcome(parsed.email, p))
            /\ pc' = "delay"
            /\ UNCHANGED reply
       ELSE /\ reply' = [http |-> 500, json |-> [error |-> p.reason]]
            /\ pc' = "done"
            /\ UNCHANGED results
    /\ UNCHANGED <<route, body, i, parsed, reqs, delays, file>>

\* BatchSettled that sends the request again when the attempt failed
BatchSettledRetry ==
    /\ route = "batch-check" /\ pc = "await"
    /\ reqs[Len(reqs)].promise.state # "pending"
    /\ LET p == reqs[Len(reqs)].promise IN
       IF p.state = "fulfilled" \/ Len(reqs) >= Len(body.batch) + 1
       THEN /\ results' = Append(results, BatchOutcome(parsed.email, p))
            /\ pc' = "delay"
            /\ UNCHANGED reqs
       ELSE /\ reqs' = Append(reqs, NewRequest(reqs[Len(reqs)].payload))
            /\ UNCHANGED <<results, pc>>
    /\ UNCHANGED <<route, body, i, parsed, delays, reply, file>>

\* BatchSettled whose catch block goes on to the next record without the delay
BatchSettledNoDelay ==
    /\ route = "batch-check" /\ pc = "await"
    /\ reqs[Len(reqs)].promise.state # "pending"
    /\ LET p == reqs[Len(reqs)].promise IN
       /\ results' = Append(results, BatchOutcome(parsed.email, p))
       /\ IF p.state = "fulfilled"
          THEN pc' = "delay" /\ UNCHANGED i
          ELSE pc' = "loop" /\ i' = i + 1
    /\ UNCHANGED <<route, body, parsed, reqs, delays, reply, file>>

\* after the await: classification and push, or the inner catch block; then
\* the pacing timer is started
BatchSettled ==
    /\ route = "batch-check" /\ pc = "await"
    /\ reqs[Len(reqs)].promise.state # "pending"
    /\ results' = Append(results, BatchOutcome(parsed.email, reqs[Len(reqs)].promise))
    /\ pc' = "delay"
    /\ UNCHANGED <<route, body, i, parsed, reqs, delays, reply, file>>

\* setTimeout(resolve, 500) fires: the next iteration
BatchDelayDone ==
    /\ route = "batch-check" /\ pc = "delay"
    /\ delays' = delays + 1
    /\ i' = i + 1
    /\ pc' = "loop"
    /\ UNCHANGED <<route, body, parsed, results, reqs, reply, file>>

\* the loop is over: res.json({ success: true, results })
BatchRespond ==
    /\ route = "batch-check" /\ pc = "loop"
    /\ i > Len(body.batch)
    /\ reply' = [http |-> 200, json |-> [success |-> TRUE, results |-> results]]
    /\ pc' = "done"
    /\ UNCHANGED <<route, body, i, parsed, results, reqs, delays, file>>

-----------------------------------------------------------------------------
(* /api/save-results *)

\* CountStatus that misses the first result
CountStatusFromSecond(rs, s) == Cardinality({k \in 2..Len(rs) : rs[k].status = s})

CountStatus(rs, s) == Cardinality({k \in 1..Len(rs) : rs[k].status = s})

SaveResults ==
    /\ route = "save-results" /\ pc = "start"
    /\ IF body.results = <<>>
       THEN /\ reply' = [http |-> 400, json |-> [error |-> "No results to save"]]
            /\ UNCHANGED file
       ELSE /\ file' = [written |-> TRUE,
                        total |-> Len(body.results),
                        valid |-> CountStatus(body.results, "valid"),
                        invalid |-> CountStatus(body.results, "invalid"),
                        errors |-> CountStatus(body.results, "error")]
            /\ reply' = [http |-> 200, json |-> [success |-> TRUE]]
    /\ pc' = "done"
    /\ UNCHANGED <<route, body, i, parsed, results, reqs, delays>>

-----------------------------------------------------------------------------

Next ==
    \/ SingleStart
    \/ SingleSettled
    \/ StartCheck
    \/ BatchStart
    \/ BatchMalformed
    \/ BatchSend
    \/ BatchSettled
    \/ BatchDelayDone
    \/ BatchRespond
    \/ SaveResults
    \/ \E k \in 1..Len(reqs) : OnResponse(k)
    \/ \E k \in 1..Len(reqs) : OnData(k)
    \/ \E k \in 1..Len(reqs) : OnEnd(k)
    \/ \E k \in 1..Len(reqs) : OnError(k)
    \/ \E k \in 1..Len(reqs) : OnTimeout(k)
    \/ \E k \in 1..Len(reqs) : OnErrorAfterDestroy(k)
    \/ \E k \in 1..Len(reqs) : OnCloseMidBody(k)

Spec == Init /\ [][Next]_vars

-----------------------------------------------------------------------------
(* Properties of a batch run *)

InBatch == route = "batch-check"

HasSeparator(line) == \E k \in 1..Len(line) : line[k] = ":"

\* the records the loop has taken up so far
Taken == IF pc \in {"await", "delay"} THEN i ELSE i - 1

\* the number of lines with a separator among the first n lines of the batch
WellFormedUpTo(n) == Cardinality({k \in 1..n : HasSeparator(body.batch[k])})

\* the text before the first separator of a line that has one
FirstSeparator(line) ==
    CHOOSE k \in 1..Len(line) : line[k] = ":" /\ \A j \in 1..(k - 1) : line[j] # ":"
BeforeSeparator(line) == SubSeq(line, 1, FirstSeparator(line) - 1)
AfterSeparator(line) == SubSeq(line, FirstSeparator(line) + 1, Len(line))

Strip(s) ==
    LET keep == {k \in 1..Len(s) : s[k] # " "} IN
    IF keep = {} THEN <<>>
    ELSE SubSeq(s, CHOOSE k \in keep : \A j \in keep : k <= j,
                   CHOOSE k \in keep : \A j \in keep : k >= j)

\* the identifier an outcome of line carries
Owner(line) == IF HasSeparator(line) THEN Strip(BeforeSeparator(line)) ELSE line

\* C1: a batch run that completes returns exactly one outcome per input line,
\* in input order: the k-th outcome carries the identifier of the k-th line, a
\* line without separator has the malformed outcome, and the outcome of a
\* well-formed line is the one of the request that was sent for that line
C1_OneOutcomePerRecordInOrder ==
    (InBatch /\ pc = "done") =>
        /\ reply.http = 200
        /\ Len(reply.json.results) = Len(body.batch)
        /\ \A k \in 1..Len(body.batch) :
             LET o == reply.json.results[k]
                 line == body.batch[k]
             IN /\ o.email = Owner(line)
                /\ IF HasSeparator(line)
                   THEN LET r == reqs[WellFormedUpTo(k)] IN
                        /\ r.payload.params.email = Owner(line)
                        /\ r.promise.state # "pending"
                        /\ r.promise.state = "rejected" => o.message = r.promise.reason
                        /\ r.promise.state = "fulfilled" /\ r.promise.value # Null
                             => o.serverMessage = Get(r.promise.value, "message")
                   ELSE o.message = Msg("Invalid combo format")

C1_Witness ==
    /\ InBatch /\ pc = "done"
    /\ body.batch = <<BadLine, GoodB>>
    /\ reply.json.results[2].status = "valid"

\* C2: no per-record failure aborts the run: a settled attempt, whatever it
\* settled to, is recorded as the outcome of its record and the loop can go
\* on; the run never answers with a run-level error; and when every attempt
\* timed out every outcome of a sent record is the timeout error
C2_FailuresAreOutcomes ==
    InBatch =>
        /\ reply.http \in {0, 200}
        /\ pc = "delay" =>
             /\ Len(results) = i
             /\ results[i].email = Owner(body.batch[i])
             /\ reqs[Len(reqs)].promise.state = "rejected" =>
                  /\ results[i].status = "error"
                  /\ results[i].message = reqs[Len(reqs)].promise.reason
             /\ ENABLED BatchDelayDone
        /\ pc = "loop" => Len(results) = i - 1
        /\ pc = "loop" => ENABLED (BatchMalformed \/ BatchSend \/ BatchRespond)
        /\ (pc = "done"
            /\ \A k \in 1..Len(reqs) :
                 reqs[k].promise = Rejected(Msg("Request timeout")))
           => \A k \in 1..Len(body.batch) :
                HasSeparator(body.batch[k]) =>
                    /\ reply.json.results[k].status = "error"
                    /\ reply.json.results[k].message = Msg("Request timeout")

C2_Witness ==
    /\ InBatch /\ pc = "done"
    /\ Len(reqs) = 2
    /\ \A k \in 1..Len(reqs) : reqs[k].promise = Rejected(Msg("Request timeout"))

\* C5: the outbound calls are exactly the well-formed records taken up so
\* far, one call each, in order: a line without separator sends nothing and
\* no attempt is sent twice
C5_OneCallPerWellFormedRecord ==
    InBatch =>
        /\ pc # "start" => Len(reqs) = WellFormedUpTo(Taken)
        /\ \A k \in 1..Taken :
             HasSeparator(body.batch[k]) =>
                 reqs[WellFormedUpTo(k)].payload.params.email = Owner(body.batch[k])
        /\ \A k \in 1..Len(results) :
             ~HasSeparator(body.batch[k]) => results[k] = MalformedOutcome(body.batch[k])

C5_Witness ==
    /\ InBatch /\ pc = "done"
    /\ body.batch = <<GoodA, BadLine>>
    /\ Len(reqs) = 1
    /\ reqs[1].promise.state = "rejected"

\* C7: at most one call is in flight, it is the latest one, and a call is
\* issued only after the pacing timer of every earlier call has fired
C7_OneInFlightAndPaced ==
    InBatch =>
        /\ Cardinality(InFlight) <= 1
        /\ InFlight \subseteq {Len(reqs)}
        /\ InFlight # {} => pc = "await"
        /\ Len(reqs) <= delays + 1
        /\ pc = "loop" => delays = Len(reqs)

C7_Witness ==
    /\ InBatch /\ pc = "await"
    /\ body.batch = <<GoodA, GoodB>>
    /\ Len(reqs) = 2 /\ delays = 1
    /\ reqs[1].promise.state = "rejected"
    /\ InFlight = {2}

\* C3: a run with an empty record list or an empty token list is rejected
\* before it starts, on both entry points: no outbound call, no outcome, and
\* the answer is the caller-input error
C3_EmptyInputRejected ==
    LET records == IF route = "start-check" THEN body.combos ELSE body.batch IN
    (route \in {"start-check", "batch-check"}
     /\ (records = <<>> \/ body.tokens = <<>>))
    => /\ reqs = <<>>
       /\ results = <<>>
       /\ pc = "done" => reply.http = 400

\* C6: every attempt is settled once its request can deliver no more events,
\* whatever the order of the events was, and a timeout settles it with the
\* timeout failure
C6_EveryAttemptSettles ==
    \A k \in 1..Len(reqs) :
        /\ reqs[k].st \notin {"sent", "headers"} => reqs[k].promise.state # "pending"
        /\ reqs[k].st \in {"destroyed", "aborted"} =>
               reqs[k].promise = Rejected(Msg("Request timeout"))

-----------------------------------------------------------------------------
(* Classification *)

Field(rec, f) == IF f \in DOMAIN rec THEN rec[f] ELSE Undefined

\* the kind of the specification's table for a settled attempt
TableKind(p) ==
    IF p.state = "rejected" THEN "transport-error"
    ELSE LET code == Get(p.value, "code")
             message == Get(p.value, "message")
         IN CASE code = Num(0) /\ message = Str("Error_Success") -> "valid"
              [] code = Num(1004) /\ message = Str("Error_NoAccount") -> "invalid"
              [] code = Num(1004) /\ message = Str("Error_FailedTooMuch") -> "rate-limited"
              [] code = Num(1004) /\ message = Str("Error_ECaptcha_VerifyFail")
                   -> "captcha-failed"
              [] OTHER -> "unknown"

\* the kind read back from an outcome: the status, and for status error the
\* echoed server message, or without one the text of the message
KindOf(o) ==
    IF o.status # "error" THEN o.status
    ELSE IF "serverMessage" \in DOMAIN o
    THEN (IF o.serverMessage = Str("Error_FailedTooMuch") THEN "rate-limited"
          ELSE IF o.serverMessage = Str("Error_ECaptcha_VerifyFail") THEN "captcha-failed"
          ELSE "none")
    ELSE IF o.message = Msg("Invalid combo format") THEN "malformed-record"
    ELSE "transport-error"

\* an attempt that ended with a (code, message) pair or a transport failure
Classifiable(p) ==
    \/ p.state = "rejected"
    \/ p.state = "fulfilled" /\ p.value # Null

\* C4: the outcome of an attempt has the kind of the table, on both routes,
\* for every (code, message) pair and every transport failure, and a line
\* without separator has the kind malformed-record; the kinds that share the
\* status error are told apart by the rest of the outcome
C4_OutcomeKindFollowsTable ==
    /\ (InBatch /\ pc = "delay" /\ Classifiable(reqs[Len(reqs)].promise)) =>
           KindOf(results[i]) = TableKind(reqs[Len(reqs)].promise)
    /\ InBatch =>
           \A k \in 1..Len(results) :
               ~HasSeparator(body.batch[k]) => KindOf(results[k]) = "malformed-record"
    /\ (route = "test-single" /\ pc = "done" /\ reqs # <<>>
        /\ Classifiable(reqs[1].promise)) =>
           KindOf(reply.json) = TableKind(reqs[1].promise)

C4_Witness ==
    /\ InBatch /\ pc = "delay"
    /\ reqs[Len(reqs)].promise = Fulfilled(Pair(1004, "Error_FailedTooMuch"))
    /\ results[i].status = "error"
    /\ Len(results) = 2
    /\ KindOf(results[1]) = "malformed-record"

\* C10: the answer of /api/test-single and the outcome of /api/batch-check
\* agree on status, code and server message for the same identifier, token
\* and settled attempt, and both send the same signed request; compared
\* where /api/test-single makes an attempt (identifier and token not empty)
C10_SingleAndBatchAgree ==
    /\ (route = "test-single" /\ pc = "done" /\ reqs # <<>>) =>
           LET o == BatchOutcome(body.email, reqs[1].promise)
               r == reply.json
           IN /\ r.status = o.status
              /\ r.email = o.email
              /\ Field(r, "code") = Field(o, "code")
              /\ Field(r, "serverMessage") = Field(o, "serverMessage")
              /\ reqs[1].payload = BatchPayload(body.email, body.token)
    /\ (InBatch /\ pc = "delay") =>
           LET e == parsed.email
               t == IF body.tokens = <<>> THEN "" ELSE body.tokens[1]
               o == results[i]
               r == SingleReply(e, reqs[Len(reqs)].promise).json
               sent == reqs[Len(reqs)].payload
           IN /\ sent.op = "email_code_login"
              /\ sent.params = [email |-> e, channel |-> "", e_captcha |-> t,
                                country |-> ""]
              /\ sent.sign = MD5Hex(<<"channel=", "", "&country=", "", "&e_captcha=", t,
                                      "&email=", e, "&op=", "email_code_login">>)
              /\ (e # <<>> /\ t # "") =>
                     /\ r.status = o.status
                     /\ r.email = o.email
                     /\ Field(r, "code") = Field(o, "code")
                     /\ Field(r, "serverMessage") = Field(o, "serverMessage")
                     /\ sent = SinglePayload(e, t)

C10_Witness ==
    /\ InBatch /\ pc = "delay"
    /\ parsed.email # <<>> /\ body.tokens # <<>>
    /\ reqs[Len(reqs)].promise = Fulfilled(Pair(1004, "Error_FailedTooMuch"))

-----------------------------------------------------------------------------
(* Parsing *)

NoEdgeSpace(s) == s = <<>> \/ (s[1] # " " /\ s[Len(s)] # " ")

\* C9 as stated: the identifier is the text before the first separator, the
\* secret exactly the text after it, and the two rebuild the line
C9_ParseSplitsAtFirstSeparator ==
    (InBatch /\ pc = "await") =>
        LET line == body.batch[i] IN
        /\ HasSeparator(line)
        /\ parsed.email = BeforeSeparator(line)
        /\ parsed.password = AfterSeparator(line)
        /\ parsed.email \o <<":">> \o parsed.password = line

\* C9 amended: the identifier and the secret are the text before and after
\* the first separator with the whitespace at their ends removed, they
\* rebuild the line when neither has whitespace at its ends, and a line is
\* taken for a record exactly when it has a separator
C9_ParseSplitsAndTrims ==
    InBatch =>
        /\ pc = "await" =>
             LET line == body.batch[i] IN
             /\ HasSeparator(line)
             /\ parsed.email = Strip(BeforeSeparator(line))
             /\ parsed.password = Strip(AfterSeparator(line))
             /\ (NoEdgeSpace(BeforeSeparator(line)) /\ NoEdgeSpace(AfterSeparator(line)))
                  => parsed.email \o <<":">> \o parsed.password = line
        /\ (pc \in {"loop", "done"} /\ i > 1) =>
             (parsed = Null <=> ~HasSeparator(body.batch[i - 1]))
        /\ (pc = "loop" /\ i <= Len(body.batch)) =>
             (ENABLED BatchSend <=> HasSeparator(body.batch[i]))

C9_Witness ==
    /\ InBatch /\ pc = "await"
    /\ body.batch = << <<"a", ":", ":", " ">> >>
    /\ parsed = [email |-> <<"a">>, password |-> <<":">>]

-----------------------------------------------------------------------------
(* The summary of /api/save-results *)

RECURSIVE Occurrences(_, _)
Occurrences(rs, s) ==
    IF rs = <<>> THEN 0
    ELSE (IF Head(rs).status = s THEN 1 ELSE 0) + Occurrences(Tail(rs), s)

\* C8 as stated: the counts of the summary account for every outcome of the
\* list
C8_CountsAccountForEveryOutcome ==
    file.written =>
        /\ file.valid = Occurrences(body.results, "valid")
        /\ file.invalid = Occurrences(body.results, "invalid")
        /\ file.errors = Occurrences(body.results, "error")
        /\ file.valid + file.invalid + file.errors = file.total

\* C8 amended: the summary of a non-empty list has the number of outcomes
\* with status valid, invalid and error and the length of the list; the
\* outcomes with status unknown are in the total alone; an empty list is
\* refused and nothing is written
C8_CountsOfReportedStatuses ==
    (route = "save-results" /\ pc = "done") =>
        IF body.results = <<>>
        THEN ~file.written /\ reply.http = 400
        ELSE /\ file.written
             /\ file.total = Len(body.results)
             /\ file.valid = Occurrences(body.results, "valid")
             /\ file.invalid = Occurrences(body.results, "invalid")
             /\ file.errors = Occurrences(body.results, "error")
             /\ file.valid + file.invalid + file.errors
                  = file.total - Occurrences(body.results, "unknown")

C8_Witness ==
    /\ route = "save-results" /\ pc = "done"
    /\ file.written
    /\ file.total = 3 /\ file.valid = 1 /\ file.errors = 1 /\ file.invalid = 0

====
